---------------------------- MODULE Spec2Model ----------------------------
(***************************************************************************)
(* The paper-retrieval-and-synthesis scripts of src/ai_scientist:          *)
(*   create_review_paper.py, sample.py, sample2.py, sample3.py.            *)
(* One run of one script (or one direct call of search_for_papers) is a    *)
(* behaviour.  The remote search service, the LLM and the LaTeX toolchain  *)
(* are the environment: every answer they can give is drawn with \E.       *)
(***************************************************************************)
EXTENDS Integers, Sequences, FiniteSets, TLC

VARIABLES
    prog,          \* which script runs
    entry,         \* "main" (the __main__ block), or the function called directly:
                   \* "search_for_papers", "get_bibtex_entry",
                   \* "extract_text_between_markers"
    pc,            \* control location
    exc,           \* name of the exception that ended the run ("" when none)
    theme,         \* args.theme
    query,         \* search_for_papers: query
    result_limit,  \* search_for_papers: result_limit
    tries,         \* backoff decorator: attempts that raised HTTPError so far
    rsp,           \* search_for_papers: the response of the last requests.get
    log,           \* side effects of the current search_for_papers or
                   \* get_bibtex_entry call, in order
    retval,        \* value returned by the function that has just returned
    llm_response,  \* text of the last get_response_from_llm answer (a local)
    llm_calls,     \* number of get_response_from_llm calls, per calling function
    chapters,      \* __main__: chapters
    idx,           \* __main__: position of the for loop in chapters (1-based)
    chapters_summaries, \* __main__: the dict, as its items in insertion order
    outcomes,      \* per chapter processed: had papers?, the summarizer's LLM text
    papers,        \* summarizer: papers
    papers_text,   \* summarizer: the digest, one entry per paper
    prompt,        \* assembler: the sections appended to the prompt
    asm_status,    \* assembler: "" (not run), "no_block", "written"
    tex_file,      \* the output .tex file: <<"absent"|"stale"|"written", content>>
    pdf_file,      \* the .pdf next to it: "absent", "stale", "produced"
    clf_i,         \* compile_latex_file: index of the next command (0: not invoked)
    clf_results,   \* compile_latex_file: how each subprocess.run ended, in order
    moved,         \* compile_latex_file: shutil.move was executed
    offset,        \* sample3: offset of collect_papers_on_theme and of the search
    papers_collected, \* sample3: papers_collected
    seen_paper_ids,   \* sample3: seen_paper_ids
    bibtex_entries,   \* sample3: bibtex_entries
    bib_requests,     \* sample3: the paper ids get_bibtex_entry has requested
    bib_file,         \* sample3: references.bib: <<"absent"|"stale"|"written", entries>>
    paperId,       \* get_bibtex_entry: paperId (None outside a call)
    upstream,      \* direct calls of get_bibtex_entry: the endpoint's answer for the id
    bib_results,   \* direct calls of get_bibtex_entry: the values returned so far
    ext_text,      \* direct calls of extract_text_between_markers: text
    extracted,     \* direct calls of extract_text_between_markers: the value returned
    search_calls   \* sample3: the search_for_papers calls of collect_papers_on_theme

\* The files start all absent (a fresh directory) or all stale (left there by
\* an earlier run of the script).

search_vars == <<query, result_limit, tries, rsp, log>>
llm_vars == <<llm_response, llm_calls>>
main_vars == <<chapters, idx, chapters_summaries, outcomes>>
sum_vars == <<papers, papers_text>>
asm_vars == <<prompt, asm_status, tex_file>>
clf_vars == <<pdf_file, clf_i, clf_results, moved>>
s3_vars == <<offset, papers_collected, seen_paper_ids, bibtex_entries, bib_requests,
             bib_file>>

bib_vars == <<paperId, upstream, bib_results>>

ext_vars == <<ext_text, extracted>>

vars == <<prog, entry, pc, exc, theme, search_vars, retval, llm_vars, main_vars,
          sum_vars, asm_vars, clf_vars, s3_vars, bib_vars, ext_vars, search_calls>>

-----------------------------------------------------------------------------
(* Bounds of the model *)

\* longest data list a search response carries
MaxData == 2
\* most HTTP errors the service gives one search_for_papers call
MaxErrors == 2
\* largest result_limit of a direct search_for_papers call
MaxLimit == 1
\* longest LLM answer, in tokens
MaxResponse == 3
\* most calls of one direct caller of get_bibtex_entry
MaxCalls == 2
\* longest text of a direct call of extract_text_between_markers, in tokens
MaxText == 5

(* Program constants *)

\* result_limit=10 at every call site of search_for_papers
RESULT_LIMIT == 10
\* collect_papers_on_theme: range(0, 50, 10)
OFFSET_STOP == 50
OFFSET_STEP == 10

-----------------------------------------------------------------------------
(* Python values: None, str, list, int are kept apart by a tag *)

None == [tag |-> "None"]
PyStr(s) == [tag |-> "str", s |-> s]
PyList(l) == [tag |-> "list", items |-> l]
PyInt(n) == [tag |-> "int", n |-> n]

\* Python truth value (`if x:` / `if not x:`)
Truthy(v) ==
    CASE v.tag = "None" -> FALSE
      [] v.tag = "str"  -> v.s # ""
      [] v.tag = "list" -> v.items # <<>>
      [] v.tag = "int"  -> v.n # 0

SeqsUpTo(S, n) == UNION {[1..k -> S] : k \in 0..n}

-----------------------------------------------------------------------------
(* The scripts *)

Progs == {"create_review_paper", "sample", "sample2", "sample3"}
ChapterProgs == {"create_review_paper", "sample2"}

Themes == {"", "gnn"}

-----------------------------------------------------------------------------
(* Paper records of the search API.  `fields` are the keys the record has. *)

AllFields == {"paperId", "title", "authors", "year", "abstract"}

Papers ==
    { [paperId |-> "p1", fields |-> AllFields],
      [paperId |-> "p2", fields |-> AllFields],
      [paperId |-> "p2", fields |-> AllFields \ {"abstract"}],
      [paperId |-> "p1", fields |-> AllFields \ {"authors"}],
      [paperId |-> "",   fields |-> AllFields \ {"paperId"}] }

(* Responses of requests.get on the search endpoint.                        *)
(*   kind: "connection_error" (requests.get raises ConnectionError),        *)
(*         "http_error" (non-2xx status), "ok" (2xx)                        *)
(*   body: "invalid_json", "nonobject" (JSON, not an object), "object"      *)
NoRsp == [kind |-> "none", body |-> "", hasTotal |-> FALSE, total |-> 0,
          hasData |-> FALSE, data |-> <<>>]

Totals == {0, 7}

OkObjects ==
    { [kind |-> "ok", body |-> "object", hasTotal |-> ht, total |-> t,
       hasData |-> hd, data |-> d] :
        ht \in BOOLEAN, t \in Totals, hd \in BOOLEAN, d \in SeqsUpTo(Papers, MaxData) }

SearchResponses ==
    { [NoRsp EXCEPT !.kind = "connection_error"],
      [NoRsp EXCEPT !.kind = "http_error"],
      [NoRsp EXCEPT !.kind = "ok", !.body = "invalid_json"],
      [NoRsp EXCEPT !.kind = "ok", !.body = "nonobject"] }
    \cup { r \in OkObjects : (~r.hasTotal => r.total = 0) /\ (~r.hasData => r.data = <<>>) }

-----------------------------------------------------------------------------
(* LLM answers.  A text is a sequence of tokens: the literal markers, runs  *)
(* of whitespace ("ws"), other prose ("text") and complete JSON values.     *)
(* A JSON value token is an object ("json_object", with or without the key  *)
(* "chapters", whose value is `chapters`) or an array ("json_array").       *)

Titles == {"", "Introduction", "Methods"}

\* the chapter lists the planner's LLM may send
Plans ==
    { <<>>, <<"Introduction">>, <<"Introduction", "Methods">>,
      <<"Methods", "Methods">>, <<"", "Methods">> }

Tok(k) == [kind |-> k, hasChapters |-> FALSE, chapters |-> None]

JsonKinds == {"json_object", "json_array"}

JsonTokens ==
    { [kind |-> "json_object", hasChapters |-> TRUE, chapters |-> PyList(c)] : c \in Plans }
    \cup { [kind |-> "json_object", hasChapters |-> TRUE, chapters |-> PyInt(5)],
           [kind |-> "json_object", hasChapters |-> TRUE, chapters |-> None],
           Tok("json_object"),
           Tok("json_array") }

PlannerTokens ==
    {Tok("<BEGIN OUTPUT>"), Tok("<END OUTPUT>"), Tok("ws"), Tok("text")} \cup JsonTokens

LatexTokens ==
    {Tok("<BEGIN LATEX>"), Tok("<END LATEX>"), Tok("ws"), Tok("text")}

\* least i >= from with text[i] the marker, 0 when there is none
IndexFrom(text, marker, from) ==
    LET hits == {i \in from..Len(text) : text[i].kind = marker}
    IN  IF hits = {} THEN 0 ELSE CHOOSE i \in hits : \A j \in hits : i <= j

\* str.strip()
strip(text) ==
    LET solid == {i \in 1..Len(text) : text[i].kind # "ws"}
    IN  IF solid = {} THEN <<>>
        ELSE LET lo == CHOOSE i \in solid : \A j \in solid : i <= j
                 hi == CHOOSE i \in solid : \A j \in solid : i >= j
             IN  SubSeq(text, lo, hi)

\* the pattern with the greedy (.*): up to the last end marker
extract_text_between_markers_greedy(text, start_marker, end_marker) ==
    LET s == IndexFrom(text, start_marker, 1)
        ends == {i \in (s + 1)..Len(text) : text[i].kind = end_marker}
    IN  IF s = 0 \/ ends = {} THEN [found |-> FALSE, text |-> <<>>]
        ELSE LET e == CHOOSE i \in ends : \A j \in ends : i >= j
             IN  [found |-> TRUE, text |-> strip(SubSeq(text, s + 1, e - 1))]

\* re.compile(escape(start) + "(.*?)" + escape(end), DOTALL).search(text):
\* the leftmost start marker that an end marker follows, up to the nearest
\* end marker after it; group(1).strip(), or None without a match
extract_text_between_markers(text, start_marker, end_marker) ==
    LET s == IndexFrom(text, start_marker, 1)
        e == IF s = 0 THEN 0 ELSE IndexFrom(text, end_marker, s + 1)
    IN  IF s = 0 \/ e = 0 THEN [found |-> FALSE, text |-> <<>>]
        ELSE [found |-> TRUE, text |-> strip(SubSeq(text, s + 1, e - 1))]

\* json.loads: exactly one JSON value, whitespace around it allowed
json_loads(text) ==
    LET t == strip(text)
    IN  IF Len(t) = 1 /\ t[1].kind \in JsonKinds
        THEN [exc |-> "", value |-> t[1]]
        ELSE [exc |-> "JSONDecodeError", value |-> Tok("text")]

\* generate_chapter_structure after the LLM call
generate_chapter_structure(response) ==
    LET json_text == extract_text_between_markers(response, "<BEGIN OUTPUT>", "<END OUTPUT>")
        parsed == json_loads(json_text.text)
    IN  IF ~json_text.found THEN [exc |-> "", ret |-> PyList(<<>>)]
        ELSE IF parsed.exc # "" THEN [exc |-> "", ret |-> PyList(<<>>)]
        ELSE IF parsed.value.kind # "json_object"
             THEN [exc |-> "AttributeError", ret |-> None]
        ELSE IF ~parsed.value.hasChapters THEN [exc |-> "", ret |-> PyList(<<>>)]
        ELSE [exc |-> "", ret |-> parsed.value.chapters]

-----------------------------------------------------------------------------
(* The digest of the summarizers *)

\* the keys the digest loop reads
DigestFields == {"title", "authors", "year", "abstract"}

\* one paper's lines: paper.get(key, placeholder) in create_review_paper
\* (authors: the join of an empty list), paper[key] elsewhere
digest_entry(p, paper) ==
    IF p = "create_review_paper"
    THEN [exc |-> "",
          line |-> [f \in DigestFields |->
                      IF f \in paper.fields THEN "value"
                      ELSE IF f = "authors" THEN "" ELSE "placeholder"]]
    ELSE IF DigestFields \subseteq paper.fields
         THEN [exc |-> "", line |-> [f \in DigestFields |-> "value"]]
         ELSE [exc |-> "KeyError", line |-> [f \in DigestFields |-> ""]]

\* the for loop over papers: the first exception ends it
digest(p, ps) ==
    IF \E i \in 1..Len(ps) : digest_entry(p, ps[i]).exc # ""
    THEN [exc |-> "KeyError", text |-> <<>>]
    ELSE [exc |-> "", text |-> [i \in 1..Len(ps) |-> digest_entry(p, ps[i]).line]]

\* `if papers is None` in place of `if not papers`
no_papers_none_only(v) == v = None

\* `if not papers:` of the summarizers
no_papers(v) == ~Truthy(v)

\* the summarizer's LLM answers (returned as they are)
Summaries == {"", "summary A", "summary B"}

-----------------------------------------------------------------------------
(* dict: the items in insertion order *)

dict_has(d, k) == \E i \in 1..Len(d) : d[i][1] = k

\* d[k] = v
dict_setitem(d, k, v) ==
    IF dict_has(d, k)
    THEN [i \in 1..Len(d) |-> IF d[i][1] = k THEN <<k, v>> ELSE d[i]]
    ELSE Append(d, <<k, v>>)

dict_get(d, k) == LET i == CHOOSE j \in 1..Len(d) : d[j][1] = k IN d[i][2]

-----------------------------------------------------------------------------
(* search_for_papers *)

\* the check left out: every query is sent
search_for_papers_short_circuit_absent(q) == FALSE

\* `if not query: return None`
search_for_papers_short_circuit(q) == q = ""

\* total = results["total"] in every script
search_for_papers_total_indexed(p, r) ==
    IF r.hasTotal THEN [exc |-> "", total |-> r.total]
    ELSE [exc |-> "KeyError", total |-> 0]

\* results.get("total", 0) in create_review_paper, results["total"] elsewhere
search_for_papers_total(p, r) ==
    IF p = "create_review_paper"
    THEN [exc |-> "", total |-> IF r.hasTotal THEN r.total ELSE 0]
    ELSE IF r.hasTotal THEN [exc |-> "", total |-> r.total]
         ELSE [exc |-> "KeyError", total |-> 0]

\* `if not total` taken for `if not total and not data`
search_for_papers_body_data_wins(p, r) ==
    IF r.body # "object" THEN [exc |-> "JSONDecodeError", slept |-> FALSE, ret |-> None]
    ELSE LET t == search_for_papers_total(p, r) IN
         IF t.exc # "" THEN [exc |-> t.exc, slept |-> FALSE, ret |-> None]
         ELSE IF t.total = 0 /\ r.data = <<>> THEN [exc |-> "", slept |-> TRUE, ret |-> None]
         ELSE IF ~r.hasData THEN [exc |-> "KeyError", slept |-> TRUE, ret |-> None]
         ELSE [exc |-> "", slept |-> TRUE, ret |-> PyList(r.data)]

\* results["data"][:result_limit] with the limit of the call sites
search_for_papers_body_truncates(p, r) ==
    IF r.body # "object" THEN [exc |-> "JSONDecodeError", slept |-> FALSE, ret |-> None]
    ELSE LET t == search_for_papers_total(p, r) IN
         IF t.exc # "" THEN [exc |-> t.exc, slept |-> FALSE, ret |-> None]
         ELSE IF t.total = 0 THEN [exc |-> "", slept |-> TRUE, ret |-> None]
         ELSE IF ~r.hasData THEN [exc |-> "KeyError", slept |-> TRUE, ret |-> None]
         ELSE [exc |-> "", slept |-> TRUE,
               ret |-> PyList(SubSeq(r.data, 1, IF Len(r.data) > 1 THEN 1 ELSE Len(r.data)))]

\* time.sleep(1.0) placed after `if not total: return None`
search_for_papers_body_sleeps_late(p, r) ==
    IF r.body = "invalid_json"
    THEN [exc |-> "JSONDecodeError", slept |-> FALSE, ret |-> None]
    ELSE IF r.body = "nonobject"
    THEN [exc |-> IF p = "create_review_paper" THEN "AttributeError" ELSE "TypeError",
          slept |-> FALSE, ret |-> None]
    ELSE LET t == search_for_papers_total(p, r) IN
         IF t.exc # "" THEN [exc |-> t.exc, slept |-> FALSE, ret |-> None]
         ELSE IF t.total = 0 THEN [exc |-> "", slept |-> FALSE, ret |-> None]
         ELSE IF ~r.hasData THEN [exc |-> "KeyError", slept |-> TRUE, ret |-> None]
         ELSE [exc |-> "", slept |-> TRUE, ret |-> PyList(r.data)]

\* The statements after raise_for_status() of a 2xx response:
\* rsp.json(), total, time.sleep(1.0), `if not total: return None`, results["data"].
\* exc: the exception raised ("" when none); slept: time.sleep(1.0) was reached.
search_for_papers_body(p, r) ==
    IF r.body = "invalid_json"
    THEN [exc |-> "JSONDecodeError", slept |-> FALSE, ret |-> None]
    ELSE IF r.body = "nonobject"
    THEN [exc |-> IF p = "create_review_paper" THEN "AttributeError" ELSE "TypeError",
          slept |-> FALSE, ret |-> None]
    ELSE LET t == search_for_papers_total(p, r) IN
         IF t.exc # "" THEN [exc |-> t.exc, slept |-> FALSE, ret |-> None]
         ELSE IF t.total = 0 THEN [exc |-> "", slept |-> TRUE, ret |-> None]
         ELSE IF ~r.hasData THEN [exc |-> "KeyError", slept |-> TRUE, ret |-> None]
         ELSE [exc |-> "", slept |-> TRUE, ret |-> PyList(r.data)]

\* the decorator with a max_tries argument
on_exception_retries_max_tries(n) == n < MaxErrors

\* backoff.on_exception(backoff.expo, HTTPError, on_backoff=on_backoff):
\* no max_tries and no max_time, so an HTTPError is always retried, after the
\* on_backoff handler and the wait.
on_exception_retries(n) == TRUE

\* the decorator without its on_backoff handler
on_backoff_unregistered == <<"wait">>

\* what the decorator does between a failed attempt and the next one
on_backoff == <<"on_backoff", "wait">>

-----------------------------------------------------------------------------
(* The assembler after its LLM call: generate_latex_review_paper,           *)
(* generate_latex_from_summary, generate_review_paper_from_papers           *)

\* the file opened for writing before the extraction is looked at
write_latex_opens_first(response, file) ==
    LET latex_code == extract_text_between_markers(response, "<BEGIN LATEX>", "<END LATEX>")
    IN  IF ~latex_code.found
        THEN [status |-> "no_block", file |-> <<"written", <<>>>>]
        ELSE [status |-> "written", file |-> <<"written", latex_code.text>>]

\* extraction, then `with open(output_file, "w") as f: f.write(latex_code)`
write_latex(response, file) ==
    LET latex_code == extract_text_between_markers(response, "<BEGIN LATEX>", "<END LATEX>")
    IN  IF ~latex_code.found
        THEN [status |-> "no_block", file |-> file]
        ELSE [status |-> "written", file |-> <<"written", latex_code.text>>]

-----------------------------------------------------------------------------
(* compile_latex_file *)

commands(p) ==
    IF p = "create_review_paper"
    THEN <<"uplatex", "uplatex", "dvipdfmx">>
    ELSE <<"pdflatex", "bibtex", "pdflatex", "pdflatex">>

\* the commands that read the .tex file
LatexCommands == {"uplatex", "pdflatex"}
\* the commands that leave a .pdf next to the .tex file
PdfCommands == {"dvipdfmx", "pdflatex"}

\* what subprocess.run can do: return (any exit status: check is not set),
\* raise TimeoutExpired, raise FileNotFoundError (no such executable)
RunOutcomes == {"exit0", "nonzero", "timeout", "not_found"}

-----------------------------------------------------------------------------
(* get_bibtex_entry: the BibTeX endpoint *)

\* the citation texts the BibTeX endpoint may send, without the white space
\* around them
BibTexts == {"", "@article"}
\* leading and trailing white space of a response text
Blanks == {"", " "}

\* the answers of requests.get on the BibTeX endpoint; rsp.text is
\* lead \o body \o trail
NoBib == [kind |-> "none", lead |-> "", body |-> "", trail |-> ""]

BibResponses ==
    { [kind |-> k, lead |-> "", body |-> "", trail |-> ""] :
        k \in {"connection_error", "http_error"} }
    \cup { [kind |-> "ok", lead |-> l, body |-> b, trail |-> t] :
             l \in Blanks, b \in BibTexts, t \in Blanks }

\* rsp.text
bib_text(r) == r.lead \o r.body \o r.trail

\* the value returned only to the first call of the process
get_bibtex_entry_text_first_only(r) == IF bib_requests # <<>> THEN "" ELSE r.body

\* rsp.text.strip(): the text without its leading and trailing white space
get_bibtex_entry_text(r) == r.body

-----------------------------------------------------------------------------

NoCalls == [planner |-> 0, summarizer |-> 0, assembler |-> 0]

TypeOK ==
    /\ prog \in Progs
    /\ entry \in {"main", "search_for_papers", "get_bibtex_entry",
                 "extract_text_between_markers"}
    /\ Len(ext_text) <= MaxText
    /\ extracted.found \in BOOLEAN
    /\ paperId \in {None, PyStr(""), PyStr("p1"), PyStr("p2")}
    /\ upstream \in BibResponses \cup {NoBib}
    /\ Len(bib_results) <= MaxCalls
    /\ theme \in Themes
    /\ exc \in {"", "ConnectionError", "HTTPError", "JSONDecodeError", "KeyError",
                "TypeError", "AttributeError", "FileNotFoundError"}
    /\ (pc = "crashed") = (exc # "")
    /\ tries \in 0..MaxErrors
    /\ idx \in Nat
    /\ Len(log) <= 3 * MaxErrors + 2
    /\ pdf_file \in {"absent", "stale", "produced"}
    /\ tex_file[1] \in {"absent", "stale", "written"}
    /\ clf_results \in SeqsUpTo(RunOutcomes, Len(commands(prog)))

Init ==
    /\ prog \in Progs
    /\ entry \in {"main", "search_for_papers", "extract_text_between_markers"}
             \cup (IF prog = "sample3" THEN {"get_bibtex_entry"} ELSE {})
    /\ ext_text \in IF entry = "extract_text_between_markers"
                    THEN SeqsUpTo(LatexTokens, MaxText) ELSE {<<>>}
    /\ extracted = [found |-> FALSE, text |-> <<>>]
    /\ exc = ""
    /\ IF entry = "get_bibtex_entry"
       THEN /\ paperId \in {None, PyStr(""), PyStr("p1")}
            /\ upstream \in BibResponses
       ELSE /\ paperId = None
            /\ upstream = NoBib
    /\ bib_results = <<>>
    /\ IF entry = "main"
       THEN /\ pc = "main"
            /\ theme \in Themes
            /\ query = ""
            /\ result_limit = RESULT_LIMIT
            /\ \E dir \in {"absent", "stale"} :
                /\ tex_file = <<dir, <<>>>>
                /\ pdf_file = dir
                /\ bib_file = <<IF prog = "sample3" THEN dir ELSE "absent", <<>>>>
       ELSE /\ pc = CASE entry = "search_for_papers" -> "sfp_call"
                      [] entry = "get_bibtex_entry" -> "bib_call"
                      [] entry = "extract_text_between_markers" -> "ext_call"
            /\ theme = ""
            /\ query \in IF entry = "search_for_papers" THEN Themes ELSE {""}
            /\ result_limit \in IF entry = "search_for_papers" THEN 1..MaxLimit
                                                              ELSE {RESULT_LIMIT}
            /\ tex_file = <<"absent", <<>>>>
            /\ pdf_file = "absent"
            /\ bib_file = <<"absent", <<>>>>
    /\ tries = 0
    /\ rsp = NoRsp
    /\ log = <<>>
    /\ retval = None
    /\ llm_response = <<>>
    /\ llm_calls = NoCalls
    /\ chapters = None
    /\ idx = 0
    /\ chapters_summaries = <<>>
    /\ outcomes = <<>>
    /\ papers = <<>>
    /\ papers_text = <<>>
    /\ prompt = <<>>
    /\ asm_status = ""
    /\ clf_i = 0
    /\ clf_results = <<>>
    /\ moved = FALSE
    /\ offset = 0
    /\ papers_collected = <<>>
    /\ seen_paper_ids = {}
    /\ bibtex_entries = <<>>
    /\ bib_requests = <<>>
    /\ search_calls = <<>>

-----------------------------------------------------------------------------
(* search_for_papers, under the backoff decorator *)

\* `if not query: return None`: no request
search_for_papers_empty ==
    /\ pc = "sfp_call"
    /\ search_for_papers_short_circuit(query)
    /\ retval' = None
    /\ pc' = "sfp_return"
    /\ UNCHANGED <<prog, entry, exc, theme, search_vars, llm_vars, main_vars, sum_vars,
                   asm_vars, clf_vars, s3_vars, bib_vars, ext_vars, search_calls>>

\* requests.get(...): one HTTP request, answered by the service
search_for_papers_get ==
    /\ pc = "sfp_call"
    /\ ~search_for_papers_short_circuit(query)
    /\ \E r \in SearchResponses :
        /\ r.kind = "http_error" => tries < MaxErrors
        /\ log' = Append(log, "GET")
        /\ IF r.kind = "connection_error"
           THEN /\ pc' = "crashed"
                /\ exc' = "ConnectionError"
                /\ rsp' = NoRsp
           ELSE /\ pc' = "sfp_response"
                /\ exc' = ""
                /\ rsp' = r
    /\ UNCHANGED <<prog, entry, theme, query, result_limit, tries, retval, llm_vars,
                   main_vars, sum_vars, asm_vars, clf_vars, s3_vars, bib_vars, ext_vars,
                   search_calls>>

\* rsp.raise_for_status() raises HTTPError; the decorator notifies, waits and
\* calls the function again
search_for_papers_http_error ==
    /\ pc = "sfp_response"
    /\ rsp.kind = "http_error"
    /\ tries' = tries + 1
    /\ IF on_exception_retries(tries + 1)
       THEN /\ log' = log \o on_backoff
            /\ pc' = "sfp_call"
            /\ exc' = ""
       ELSE /\ log' = log
            /\ pc' = "crashed"
            /\ exc' = "HTTPError"
    /\ rsp' = NoRsp
    /\ UNCHANGED <<prog, entry, theme, query, result_limit, retval, llm_vars, main_vars,
                   sum_vars, asm_vars, clf_vars, s3_vars, bib_vars, ext_vars,
                   search_calls>>

\* 2xx: rsp.json(), total, time.sleep(1.0), return
search_for_papers_ok ==
    /\ pc = "sfp_response"
    /\ rsp.kind = "ok"
    /\ LET b == search_for_papers_body(prog, rsp) IN
        /\ log' = IF b.slept THEN Append(log, "sleep(1.0)") ELSE log
        /\ exc' = b.exc
        /\ retval' = b.ret
        /\ pc' = IF b.exc = "" THEN "sfp_return" ELSE "crashed"
    /\ UNCHANGED <<prog, entry, theme, query, result_limit, tries, rsp, llm_vars,
                   main_vars, sum_vars, asm_vars, clf_vars, s3_vars, bib_vars, ext_vars,
                   search_calls>>

\* a direct call returns to its caller
direct_call_return ==
    /\ pc = "sfp_return"
    /\ entry = "search_for_papers"
    /\ pc' = "done"
    /\ rsp' = NoRsp
    /\ log' = <<>>
    /\ UNCHANGED <<prog, entry, exc, theme, query, result_limit, tries, retval,
                   llm_vars, main_vars, sum_vars, asm_vars, clf_vars, s3_vars, bib_vars,
                   ext_vars, search_calls>>

-----------------------------------------------------------------------------
(* __main__ of create_review_paper and sample2: the chapter pipeline *)

\* generate_chapter_structure: the LLM request
main_plan ==
    /\ pc = "main"
    /\ prog \in ChapterProgs
    /\ \E r \in SeqsUpTo(PlannerTokens, MaxResponse) : llm_response' = r
    /\ llm_calls' = [llm_calls EXCEPT !.planner = @ + 1]
    /\ pc' = "gcs_extract"
    /\ UNCHANGED <<prog, entry, exc, theme, search_vars, retval, main_vars, sum_vars,
                   asm_vars, clf_vars, s3_vars, bib_vars, ext_vars, search_calls>>

\* generate_chapter_structure: extraction, json.loads, return
generate_chapter_structure_return ==
    /\ pc = "gcs_extract"
    /\ LET g == generate_chapter_structure(llm_response) IN
        /\ exc' = g.exc
        /\ retval' = g.ret
        /\ pc' = IF g.exc = "" THEN "gcs_return" ELSE "crashed"
    /\ UNCHANGED <<prog, entry, theme, search_vars, llm_vars, main_vars, sum_vars,
                   asm_vars, clf_vars, s3_vars, bib_vars, ext_vars, search_calls>>

\* __main__ without the `if not chapters: exit()` test
main_chapters_no_exit ==
    /\ pc = "gcs_return"
    /\ chapters' = retval
    /\ llm_response' = <<>>
    /\ IF retval.tag # "list"
       THEN pc' = "crashed" /\ exc' = "TypeError" /\ idx' = idx
       ELSE pc' = "main_loop" /\ exc' = "" /\ idx' = 1
    /\ UNCHANGED <<prog, entry, theme, search_vars, retval, llm_calls,
                   chapters_summaries, outcomes, sum_vars, asm_vars, clf_vars, s3_vars,
                   bib_vars, ext_vars, search_calls>>

\* chapters = ...; `if not chapters: exit()`; chapters_summaries = {}; for ...
main_chapters ==
    /\ pc = "gcs_return"
    /\ chapters' = retval
    /\ llm_response' = <<>>
    /\ IF ~Truthy(retval)
       THEN pc' = "exited" /\ exc' = "" /\ idx' = idx
       ELSE IF retval.tag # "list"
       THEN pc' = "crashed" /\ exc' = "TypeError" /\ idx' = idx
       ELSE pc' = "main_loop" /\ exc' = "" /\ idx' = 1
    /\ UNCHANGED <<prog, entry, theme, search_vars, retval, llm_calls,
                   chapters_summaries, outcomes, sum_vars, asm_vars, clf_vars, s3_vars,
                   bib_vars, ext_vars, search_calls>>

\* the query with .strip() applied to it
chapter_query_stripped(th, chapter_title) ==
    IF th = "" /\ chapter_title = "" THEN ""
    ELSE IF th = "" THEN chapter_title
    ELSE IF chapter_title = "" THEN th
    ELSE th \o " " \o chapter_title

\* the query of summarize_papers_for_chapter: f"{theme} {chapter_title}"
chapter_query(th, chapter_title) == th \o " " \o chapter_title

\* for chapter_title in chapters: summarize_papers_for_chapter calls
\* search_for_papers(query, result_limit=10)
main_loop_summarize ==
    /\ pc = "main_loop"
    /\ idx <= Len(chapters.items)
    /\ query' = chapter_query(theme, chapters.items[idx])
    /\ result_limit' = RESULT_LIMIT
    /\ tries' = 0
    /\ rsp' = NoRsp
    /\ log' = <<>>
    /\ pc' = "sfp_call"
    /\ UNCHANGED <<prog, entry, exc, theme, retval, llm_vars, main_vars, sum_vars,
                   asm_vars, clf_vars, s3_vars, bib_vars, ext_vars, search_calls>>

\* summarize_papers_for_chapter / summarize_papers_on_theme after the search:
\* `if not papers: return ""`, else the digest loop
summarize_after_search ==
    /\ pc = "sfp_return"
    /\ entry = "main"
    /\ prog \in ChapterProgs \cup {"sample"}
    /\ rsp' = NoRsp
    /\ log' = <<>>
    /\ tries' = 0
    /\ IF no_papers(retval)
       THEN /\ retval' = PyStr("")
            /\ pc' = "sum_return"
            /\ exc' = ""
            /\ UNCHANGED sum_vars
       ELSE LET d == digest(prog, retval.items) IN
            /\ papers' = retval.items
            /\ papers_text' = d.text
            /\ exc' = d.exc
            /\ pc' = IF d.exc = "" THEN "sum_llm" ELSE "crashed"
            /\ retval' = None
    /\ UNCHANGED <<prog, entry, theme, query, result_limit, llm_vars, main_vars,
                   asm_vars, clf_vars, s3_vars, bib_vars, ext_vars, search_calls>>

\* the summarizer's LLM request; its answer is returned as it is
summarize_llm ==
    /\ pc = "sum_llm"
    /\ \E s \in Summaries : retval' = PyStr(s)
    /\ llm_calls' = [llm_calls EXCEPT !.summarizer = @ + 1]
    /\ pc' = "sum_return"
    /\ UNCHANGED <<prog, entry, exc, theme, search_vars, llm_response, main_vars,
                   sum_vars, asm_vars, clf_vars, s3_vars, bib_vars, ext_vars,
                   search_calls>>

\* chapters_summaries[chapter_title] = summary; next chapter
main_store_summary ==
    /\ pc = "sum_return"
    /\ prog \in ChapterProgs
    /\ chapters_summaries' =
          dict_setitem(chapters_summaries, chapters.items[idx], retval.s)
    /\ outcomes' = Append(outcomes, [papers |-> papers # <<>>, summary |-> retval.s])
    /\ idx' = idx + 1
    /\ papers' = <<>>
    /\ papers_text' = <<>>
    /\ pc' = "main_loop"
    /\ UNCHANGED <<prog, entry, exc, theme, search_vars, retval, llm_vars, chapters,
                   asm_vars, clf_vars, s3_vars, bib_vars, ext_vars, search_calls>>

\* the `### {chapter_title}\n{summary}` sections of the assembler's prompt
prompt_sections(d) == [i \in 1..Len(d) |-> [heading |-> d[i][1], body |-> d[i][2]]]

\* the assembler called from the last iteration of the loop
main_assemble_in_loop ==
    /\ pc = "main_loop"
    /\ idx >= Len(chapters.items)
    /\ prompt' = prompt_sections(chapters_summaries)
    /\ \E r \in SeqsUpTo(LatexTokens, MaxResponse) : llm_response' = r
    /\ llm_calls' = [llm_calls EXCEPT !.assembler = @ + 1]
    /\ pc' = "asm_extract"
    /\ UNCHANGED <<prog, entry, exc, theme, search_vars, retval, main_vars, sum_vars,
                   asm_status, tex_file, clf_vars, s3_vars, bib_vars, ext_vars,
                   search_calls>>

\* after the loop: generate_latex_review_paper builds the prompt and asks the LLM
main_assemble ==
    /\ pc = "main_loop"
    /\ idx > Len(chapters.items)
    /\ prompt' = prompt_sections(chapters_summaries)
    /\ \E r \in SeqsUpTo(LatexTokens, MaxResponse) : llm_response' = r
    /\ llm_calls' = [llm_calls EXCEPT !.assembler = @ + 1]
    /\ pc' = "asm_extract"
    /\ UNCHANGED <<prog, entry, exc, theme, search_vars, retval, main_vars, sum_vars,
                   asm_status, tex_file, clf_vars, s3_vars, bib_vars, ext_vars,
                   search_calls>>

-----------------------------------------------------------------------------
(* __main__ of sample *)

\* summarize_papers_on_theme calls search_for_papers(theme, result_limit=10)
sample_main ==
    /\ pc = "main"
    /\ prog = "sample"
    /\ query' = theme
    /\ result_limit' = RESULT_LIMIT
    /\ tries' = 0
    /\ rsp' = NoRsp
    /\ log' = <<>>
    /\ pc' = "sfp_call"
    /\ UNCHANGED <<prog, entry, exc, theme, retval, llm_vars, main_vars, sum_vars,
                   asm_vars, clf_vars, s3_vars, bib_vars, ext_vars, search_calls>>

\* `if summary:` generate_latex_from_summary builds the prompt and asks the LLM
sample_assemble ==
    /\ pc = "sum_return"
    /\ prog = "sample"
    /\ Truthy(retval)
    /\ prompt' = <<[heading |-> "", body |-> retval.s]>>
    /\ \E r \in SeqsUpTo(LatexTokens, MaxResponse) : llm_response' = r
    /\ llm_calls' = [llm_calls EXCEPT !.assembler = @ + 1]
    /\ papers' = <<>>
    /\ papers_text' = <<>>
    /\ pc' = "asm_extract"
    /\ UNCHANGED <<prog, entry, exc, theme, search_vars, retval, main_vars, asm_status,
                   tex_file, clf_vars, s3_vars, bib_vars, ext_vars, search_calls>>

\* `else: print("No summary was generated.")`
sample_no_summary ==
    /\ pc = "sum_return"
    /\ prog = "sample"
    /\ ~Truthy(retval)
    /\ papers' = <<>>
    /\ papers_text' = <<>>
    /\ pc' = "done"
    /\ UNCHANGED <<prog, entry, exc, theme, search_vars, retval, llm_vars, main_vars,
                   asm_vars, clf_vars, s3_vars, bib_vars, ext_vars, search_calls>>

-----------------------------------------------------------------------------
(* __main__ of sample3: collect_papers_on_theme, BibTeX, assembler *)

\* paper.get('paperId')
paper_id(paper) == IF "paperId" \in paper.fields THEN PyStr(paper.paperId) ELSE None

\* the inner loop without the seen_paper_ids test
collect_page_keeps_all(collected, seen, page) ==
    [collected |-> collected \o page,
     seen |-> seen \cup {paper_id(page[i]) : i \in DOMAIN page}]

\* the inner loop of collect_papers_on_theme over one page:
\* a paper is appended unless its id has been seen
RECURSIVE collect_page(_, _, _)
collect_page(collected, seen, page) ==
    IF page = <<>> THEN [collected |-> collected, seen |-> seen]
    ELSE LET paper == Head(page) IN
         IF paper_id(paper) \notin seen
         THEN collect_page(Append(collected, paper), seen \cup {paper_id(paper)}, Tail(page))
         ELSE collect_page(collected, seen, Tail(page))

\* papers = collect_papers_on_theme(theme=args.theme)
sample3_main ==
    /\ pc = "main"
    /\ prog = "sample3"
    /\ offset' = 0
    /\ papers_collected' = <<>>
    /\ seen_paper_ids' = {}
    /\ pc' = "collect_loop"
    /\ UNCHANGED <<prog, entry, exc, theme, search_vars, retval, llm_vars, main_vars,
                   sum_vars, asm_vars, clf_vars, bibtex_entries, bib_requests, bib_file,
                   bib_vars, ext_vars, search_calls>>

\* for offset in range(0, 50, 10): search_for_papers(theme, result_limit=10, offset=offset)
collect_papers_on_theme_search ==
    /\ pc = "collect_loop"
    /\ offset < OFFSET_STOP
    /\ query' = theme
    /\ result_limit' = RESULT_LIMIT
    /\ tries' = 0
    /\ rsp' = NoRsp
    /\ log' = <<>>
    /\ search_calls' = Append(search_calls, [query |-> theme, limit |-> RESULT_LIMIT,
                                             offset |-> offset])
    /\ pc' = "sfp_call"
    /\ UNCHANGED <<prog, entry, exc, theme, retval, llm_vars, main_vars, sum_vars,
                   asm_vars, clf_vars, s3_vars, bib_vars, ext_vars>>

\* the loop with `continue` in the place of `break`
collect_papers_on_theme_page_no_break ==
    /\ pc = "sfp_return"
    /\ entry = "main"
    /\ prog = "sample3"
    /\ rsp' = NoRsp
    /\ log' = <<>>
    /\ tries' = 0
    /\ LET c == IF ~Truthy(retval)
                THEN [collected |-> papers_collected, seen |-> seen_paper_ids]
                ELSE collect_page(papers_collected, seen_paper_ids, retval.items) IN
        /\ papers_collected' = c.collected
        /\ seen_paper_ids' = c.seen
        /\ offset' = offset + OFFSET_STEP
        /\ pc' = "collect_loop"
    /\ retval' = None
    /\ UNCHANGED <<prog, entry, exc, theme, query, result_limit, llm_vars, main_vars,
                   sum_vars, asm_vars, clf_vars, bibtex_entries, bib_requests, bib_file,
                   bib_vars, ext_vars, search_calls>>

\* `if not papers: break`, else the page is merged and the loop goes on
collect_papers_on_theme_page ==
    /\ pc = "sfp_return"
    /\ entry = "main"
    /\ prog = "sample3"
    /\ rsp' = NoRsp
    /\ log' = <<>>
    /\ tries' = 0
    /\ IF ~Truthy(retval)
       THEN /\ pc' = "collect_return"
            /\ UNCHANGED <<offset, papers_collected, seen_paper_ids>>
       ELSE LET c == collect_page(papers_collected, seen_paper_ids, retval.items) IN
            /\ papers_collected' = c.collected
            /\ seen_paper_ids' = c.seen
            /\ offset' = offset + OFFSET_STEP
            /\ pc' = "collect_loop"
    /\ retval' = None
    /\ UNCHANGED <<prog, entry, exc, theme, query, result_limit, llm_vars, main_vars,
                   sum_vars, asm_vars, clf_vars, bibtex_entries, bib_requests, bib_file,
                   bib_vars, ext_vars, search_calls>>

\* the range is exhausted
collect_papers_on_theme_end ==
    /\ pc = "collect_loop"
    /\ offset >= OFFSET_STOP
    /\ pc' = "collect_return"
    /\ UNCHANGED <<prog, entry, exc, theme, search_vars, retval, llm_vars, main_vars,
                   sum_vars, asm_vars, clf_vars, s3_vars, bib_vars, ext_vars,
                   search_calls>>

\* `if papers:` the digest and BibTeX loop starts, else "No papers were collected."
sample3_papers ==
    /\ pc = "collect_return"
    /\ seen_paper_ids' = {}
    /\ IF papers_collected # <<>>
       THEN pc' = "s3_loop" /\ idx' = 1
       ELSE pc' = "done" /\ idx' = idx
    /\ UNCHANGED <<prog, entry, exc, theme, search_vars, retval, llm_vars, chapters,
                   chapters_summaries, outcomes, sum_vars, asm_vars, clf_vars, offset,
                   papers_collected, bibtex_entries, bib_requests, bib_file, bib_vars,
                   ext_vars, search_calls>>

\* get_bibtex_entry: `if not paperId: return None`
get_bibtex_entry_short_circuit_none_only(id) == id = None

get_bibtex_entry_short_circuit(id) == ~Truthy(id)

\* one iteration up to the call of get_bibtex_entry: the paper's digest lines,
\* then get_bibtex_entry(paper.get('paperId'))
sample3_digest ==
    /\ pc = "s3_loop"
    /\ idx <= Len(papers_collected)
    /\ LET paper == papers_collected[idx]
           d == digest_entry(prog, paper) IN
        /\ exc' = d.exc
        /\ IF d.exc # ""
           THEN pc' = "crashed" /\ papers_text' = papers_text /\ paperId' = paperId
           ELSE /\ papers_text' = Append(papers_text, d.line)
                /\ paperId' = paper_id(paper)
                /\ pc' = "bib_call"
    /\ log' = <<>>
    /\ UNCHANGED <<prog, entry, theme, query, result_limit, tries, rsp, retval,
                   llm_vars, main_vars, papers, asm_vars, clf_vars, s3_vars, upstream,
                   bib_results, ext_vars, search_calls>>

\* get_bibtex_entry: `if not paperId: return None`, no request
get_bibtex_entry_empty ==
    /\ pc = "bib_call"
    /\ get_bibtex_entry_short_circuit(paperId)
    /\ retval' = None
    /\ pc' = "bib_return"
    /\ UNCHANGED <<prog, entry, exc, theme, search_vars, llm_vars, main_vars, sum_vars,
                   asm_vars, clf_vars, s3_vars, bib_vars, ext_vars, search_calls>>

\* get_bibtex_entry: requests.get, raise_for_status(), rsp.text.strip().
\* The function has no decorator: an exception goes to the caller.
get_bibtex_entry_get ==
    /\ pc = "bib_call"
    /\ ~get_bibtex_entry_short_circuit(paperId)
    /\ bib_requests' = Append(bib_requests, paperId.s)
    /\ log' = Append(log, "GET")
    /\ \E r \in IF entry = "get_bibtex_entry" THEN {upstream} ELSE BibResponses :
        IF r.kind = "ok"
        THEN /\ pc' = "bib_return"
             /\ exc' = ""
             /\ retval' = PyStr(get_bibtex_entry_text(r))
        ELSE /\ pc' = "crashed"
             /\ exc' = IF r.kind = "http_error" THEN "HTTPError" ELSE "ConnectionError"
             /\ retval' = retval
    /\ UNCHANGED <<prog, entry, theme, query, result_limit, tries, rsp, llm_vars,
                   main_vars, sum_vars, asm_vars, clf_vars, offset, papers_collected,
                   seen_paper_ids, bibtex_entries, bib_file, bib_vars, ext_vars,
                   search_calls>>

\* `if bibtex_entry: bibtex_entries.append(bibtex_entry)`, next paper
sample3_store_bibtex ==
    /\ pc = "bib_return"
    /\ entry = "main"
    /\ bibtex_entries' = IF Truthy(retval) THEN Append(bibtex_entries, retval.s)
                         ELSE bibtex_entries
    /\ idx' = idx + 1
    /\ retval' = None
    /\ paperId' = None
    /\ log' = <<>>
    /\ pc' = "s3_loop"
    /\ UNCHANGED <<prog, entry, exc, theme, query, result_limit, tries, rsp, llm_vars,
                   chapters, chapters_summaries, outcomes, sum_vars, asm_vars, clf_vars,
                   offset, papers_collected, seen_paper_ids, bib_requests, bib_file,
                   upstream, bib_results, ext_vars, search_calls>>

\* a direct caller takes the value and calls get_bibtex_entry again with the
\* same id, MaxCalls times in all
direct_bibtex_return ==
    /\ pc = "bib_return"
    /\ entry = "get_bibtex_entry"
    /\ bib_results' = Append(bib_results, retval)
    /\ retval' = None
    /\ log' = <<>>
    /\ pc' = IF Len(bib_results) + 1 < MaxCalls THEN "bib_call" ELSE "done"
    /\ UNCHANGED <<prog, entry, exc, theme, query, result_limit, tries, rsp, llm_vars,
                   main_vars, sum_vars, asm_vars, clf_vars, s3_vars, paperId, upstream,
                   ext_vars, search_calls>>

\* references.bib written from inside the last iteration, before its fetch
sample3_write_bib_in_loop ==
    /\ pc = "s3_loop"
    /\ idx >= Len(papers_collected)
    /\ bib_file' = <<"written", bibtex_entries>>
    /\ pc' = "s3_assemble"
    /\ UNCHANGED <<prog, entry, exc, theme, search_vars, retval, llm_vars, main_vars,
                   sum_vars, asm_vars, clf_vars, offset, papers_collected,
                   seen_paper_ids, bibtex_entries, bib_requests, bib_vars, ext_vars,
                   search_calls>>

\* after the loop: references.bib is written
sample3_write_bib ==
    /\ pc = "s3_loop"
    /\ idx > Len(papers_collected)
    /\ bib_file' = <<"written", bibtex_entries>>
    /\ pc' = "s3_assemble"
    /\ UNCHANGED <<prog, entry, exc, theme, search_vars, retval, llm_vars, main_vars,
                   sum_vars, asm_vars, clf_vars, offset, papers_collected,
                   seen_paper_ids, bibtex_entries, bib_requests, bib_vars, ext_vars,
                   search_calls>>

\* generate_review_paper_from_papers builds the prompt and asks the LLM
sample3_assemble ==
    /\ pc = "s3_assemble"
    /\ prompt' = [i \in 1..Len(bibtex_entries) |->
                    [heading |-> "references.bib", body |-> bibtex_entries[i]]]
    /\ \E r \in SeqsUpTo(LatexTokens, MaxResponse) : llm_response' = r
    /\ llm_calls' = [llm_calls EXCEPT !.assembler = @ + 1]
    /\ pc' = "asm_extract"
    /\ UNCHANGED <<prog, entry, exc, theme, search_vars, retval, main_vars, sum_vars,
                   asm_status, tex_file, clf_vars, s3_vars, bib_vars, ext_vars,
                   search_calls>>

-----------------------------------------------------------------------------
(* the assembler and compile_latex_file, in every script *)

\* extraction of the LaTeX block; the file is written only when it is found.
\* Both exits return None.
assembler_return ==
    /\ pc = "asm_extract"
    /\ LET w == write_latex(llm_response, tex_file) IN
        /\ asm_status' = w.status
        /\ tex_file' = w.file
    /\ retval' = None
    /\ pc' = "asm_return"
    /\ UNCHANGED <<prog, entry, exc, theme, search_vars, llm_vars, main_vars, sum_vars,
                   prompt, clf_vars, s3_vars, bib_vars, ext_vars, search_calls>>

\* __main__ goes on to compile_latex_file, whatever the assembler did
main_compile ==
    /\ pc = "asm_return"
    /\ llm_response' = <<>>
    /\ prompt' = <<>>
    /\ clf_i' = 1
    /\ pc' = "clf_run"
    /\ UNCHANGED <<prog, entry, exc, theme, search_vars, retval, llm_calls, main_vars,
                   sum_vars, asm_status, tex_file, pdf_file, clf_results, moved,
                   s3_vars, bib_vars, ext_vars, search_calls>>

\* subprocess.run(command, ..., timeout=timeout) of the next command
compile_latex_file_run ==
    /\ pc = "clf_run"
    /\ clf_i <= Len(commands(prog))
    /\ \E o \in RunOutcomes :
        LET c == commands(prog)[clf_i] IN
        /\ (o = "exit0" /\ c \in LatexCommands) => tex_file[1] # "absent"
        /\ clf_results' = Append(clf_results, o)
        /\ IF o = "timeout"
           THEN pc' = "done" /\ exc' = "" /\ clf_i' = clf_i /\ pdf_file' = pdf_file
           ELSE IF o = "not_found"
           THEN pc' = "crashed" /\ exc' = "FileNotFoundError" /\ clf_i' = clf_i
                /\ pdf_file' = pdf_file
           ELSE /\ pc' = "clf_run"
                /\ exc' = ""
                /\ clf_i' = clf_i + 1
                /\ IF c \in PdfCommands /\ tex_file[1] # "absent"
                   THEN pdf_file' \in {pdf_file, "produced"}
                   ELSE pdf_file' = pdf_file
    /\ UNCHANGED <<prog, entry, theme, search_vars, retval, llm_vars, main_vars,
                   sum_vars, asm_vars, moved, s3_vars, bib_vars, ext_vars,
                   search_calls>>

\* after the last command: `if os.path.exists(generated_pdf): shutil.move(...)`
compile_latex_file_finish ==
    /\ pc = "clf_run"
    /\ clf_i > Len(commands(prog))
    /\ moved' = (pdf_file # "absent")
    /\ pc' = "done"
    /\ UNCHANGED <<prog, entry, exc, theme, search_vars, retval, llm_vars, main_vars,
                   sum_vars, asm_vars, pdf_file, clf_i, clf_results, s3_vars, bib_vars,
                   ext_vars, search_calls>>

-----------------------------------------------------------------------------

-----------------------------------------------------------------------------
(* extract_text_between_markers called directly *)

\* extract_text_between_markers(text, "<BEGIN LATEX>", "<END LATEX>")
direct_extract ==
    /\ pc = "ext_call"
    /\ extracted' = extract_text_between_markers(ext_text, "<BEGIN LATEX>", "<END LATEX>")
    /\ pc' = "done"
    /\ UNCHANGED <<prog, entry, exc, theme, search_vars, retval, llm_vars, main_vars,
                   sum_vars, asm_vars, clf_vars, s3_vars, bib_vars, ext_text,
                   search_calls>>

-----------------------------------------------------------------------------

Next ==
    \/ search_for_papers_empty
    \/ search_for_papers_get
    \/ search_for_papers_http_error
    \/ search_for_papers_ok
    \/ direct_call_return
    \/ main_plan
    \/ generate_chapter_structure_return
    \/ main_chapters
    \/ main_loop_summarize
    \/ summarize_after_search
    \/ summarize_llm
    \/ main_store_summary
    \/ main_assemble
    \/ sample_main
    \/ sample_assemble
    \/ sample_no_summary
    \/ sample3_main
    \/ collect_papers_on_theme_search
    \/ collect_papers_on_theme_page
    \/ collect_papers_on_theme_end
    \/ sample3_papers
    \/ sample3_digest
    \/ get_bibtex_entry_empty
    \/ get_bibtex_entry_get
    \/ sample3_store_bibtex
    \/ direct_bibtex_return
    \/ direct_extract
    \/ sample3_write_bib
    \/ sample3_assemble
    \/ assembler_return
    \/ main_compile
    \/ compile_latex_file_run
    \/ compile_latex_file_finish

Spec == Init /\ [][Next]_vars

-----------------------------------------------------------------------------
(* Properties *)

\* the effects of a search_for_papers call that met k HTTP errors and then a
\* 2xx response it could read
RECURSIVE RetryPattern(_)
RetryPattern(k) ==
    IF k = 0 THEN <<"GET", "sleep(1.0)">>
    ELSE <<"GET", "on_backoff", "wait">> \o RetryPattern(k - 1)

\* the response is 2xx and a JSON object
OkObject(r) == r.kind = "ok" /\ r.body = "object"

\* the text holds a start marker with an end marker somewhere after it
HasBlock(text, start_marker, end_marker) ==
    \E i, j \in 1..Len(text) :
        i < j /\ text[i].kind = start_marker /\ text[j].kind = end_marker

\* C1: in every script, search_for_papers called with an empty query returns
\* None and has issued no HTTP request, slept no second and notified no backoff.
C1_EmptyQueryNoRequest ==
    (query = "" /\ pc \in {"sfp_call", "sfp_response", "sfp_return"})
        => /\ pc # "sfp_response"
           /\ log = <<>>
           /\ tries = 0
           /\ rsp = NoRsp
           /\ (pc = "sfp_return" => retval = None)

C1_Witness ==
    /\ pc = "sfp_return"
    /\ query = ""
    /\ prog = "sample2"
    /\ retval = None

\* C2: a 2xx response to a non-empty query that declares total 0 makes
\* search_for_papers return None, whatever its data field is.
C2_ZeroTotalReturnsNone ==
    (query # "" /\ pc \in {"sfp_return", "crashed"} /\ OkObject(rsp)
       /\ rsp.hasTotal /\ rsp.total = 0)
        => (pc = "sfp_return" /\ retval = None)

C2_Witness ==
    /\ pc = "sfp_return"
    /\ query # ""
    /\ OkObject(rsp) /\ rsp.hasTotal /\ rsp.total = 0
    /\ rsp.hasData /\ rsp.data # <<>>
    /\ retval = None

\* C3: when the service answers k HTTP errors and then a 2xx response, the
\* call has made k+1 requests and k backoff notifications, each notification
\* after a failed request and before the next one, and returns what the 2xx
\* response carries.
C3_RetryThenPayload ==
    (pc = "sfp_return" /\ query # "")
        => /\ log = RetryPattern(tries)
           /\ Cardinality({i \in 1..Len(log) : log[i] = "GET"}) = tries + 1
           /\ Cardinality({i \in 1..Len(log) : log[i] = "on_backoff"}) = tries
           /\ OkObject(rsp)
           /\ retval = IF rsp.hasTotal /\ rsp.total # 0 THEN PyList(rsp.data) ELSE None

C3_Witness ==
    /\ pc = "sfp_return"
    /\ tries = 2
    /\ retval.tag = "list"
    /\ retval.items # <<>>

\* C4: when the assembler's LLM answer holds no <BEGIN LATEX>...<END LATEX>
\* block, the assembler returns None and the .tex file is left as it was.
C4_NoBlockNoFile ==
    (pc = "asm_return" /\ ~HasBlock(llm_response, "<BEGIN LATEX>", "<END LATEX>"))
        => /\ retval = None
           /\ asm_status = "no_block"
           /\ tex_file \in {<<"absent", <<>>>>, <<"stale", <<>>>>}

C4_Witness ==
    /\ pc = "asm_return"
    /\ prog = "sample3"
    /\ llm_response = <<Tok("<END LATEX>"), Tok("text"), Tok("<BEGIN LATEX>")>>
    /\ tex_file = <<"stale", <<>>>>

\* C5: in a run where the assembler found no LaTeX block, compile_latex_file
\* is never invoked and no PDF is produced.
C5_FailureHaltsRun ==
    asm_status = "no_block" => (clf_i = 0 /\ pdf_file # "produced" /\ ~moved)

\* the LLM answer holds a marker block whose text is one JSON value
ValidJsonBlock(text) ==
    /\ HasBlock(text, "<BEGIN OUTPUT>", "<END OUTPUT>")
    /\ \E i, j \in 1..Len(text) :
        /\ i < j
        /\ text[i].kind = "<BEGIN OUTPUT>"
        /\ \A k \in 1..(i - 1) : text[k].kind # "<BEGIN OUTPUT>"
        /\ text[j].kind = "<END OUTPUT>"
        /\ \A k \in (i + 1)..(j - 1) : text[k].kind # "<END OUTPUT>"
        /\ Cardinality({k \in (i + 1)..(j - 1) : text[k].kind # "ws"}) = 1
        /\ \E k \in (i + 1)..(j - 1) : text[k].kind \in JsonKinds

\* the JSON value of that block
JsonOfBlock(text) ==
    text[CHOOSE k \in 1..Len(text) :
            /\ text[k].kind \in JsonKinds
            /\ \E i \in 1..(k - 1) :
                /\ text[i].kind = "<BEGIN OUTPUT>"
                /\ \A m \in 1..(i - 1) : text[m].kind # "<BEGIN OUTPUT>"
                /\ \A m \in (i + 1)..k : text[m].kind # "<END OUTPUT>"]

\* C6: generate_chapter_structure returns a sequence: the "chapters" array of
\* the marker block when the block holds valid JSON, the empty sequence when
\* a marker is absent or the text between the markers is not valid JSON.
C6_PlanMatchesJson ==
    [][ pc = "gcs_extract" =>
          IF ValidJsonBlock(llm_response)
          THEN /\ pc' = "gcs_return"
               /\ retval'.tag = "list"
               /\ LET v == JsonOfBlock(llm_response) IN
                  (v.kind = "json_object" /\ v.hasChapters /\ v.chapters.tag = "list")
                      => retval' = v.chapters
          ELSE /\ pc' = "gcs_return"
               /\ retval' = PyList(<<>>)
      ]_vars

\* C7: a search that yields no papers (None or an empty list) makes
\* summarize_papers_for_chapter return "" without an LLM request, and the
\* main loop stores "" and goes on to the next chapter (or to the assembler).
C7_MissIsNotFatal ==
    [][ /\ (pc = "sfp_return" /\ entry = "main" /\ prog \in ChapterProgs /\ ~Truthy(retval))
            => (pc' = "sum_return" /\ retval' = PyStr("") /\ llm_calls' = llm_calls
                /\ exc' = "")
        /\ (pc = "sum_return" /\ prog \in ChapterProgs /\ papers = <<>>)
            => /\ pc' = "main_loop"
               /\ exc' = ""
               /\ idx' = idx + 1
               /\ llm_calls' = llm_calls
               /\ dict_get(chapters_summaries', chapters.items[idx]) = ""
        /\ (pc = "main_loop" /\ idx <= Len(chapters.items))
            => (pc' = "sfp_call" /\ query' = chapter_query(theme, chapters.items[idx]))
        /\ (pc = "main_loop" /\ idx > Len(chapters.items))
            => (pc' = "asm_extract" /\ llm_calls'.assembler = 1)
      ]_vars

C7_Witness ==
    /\ pc = "asm_extract"
    /\ prog \in ChapterProgs
    /\ Len(outcomes) = 2
    /\ ~outcomes[1].papers
    /\ outcomes[2].papers
    /\ chapters_summaries = <<<<"Introduction", "">>, <<"Methods", "summary A">>>>

\* the digest loop of a summarizer raised
DigestRaised ==
    /\ pc = "crashed"
    /\ exc = "KeyError"
    /\ entry = "main"
    /\ \/ prog \in ChapterProgs \cup {"sample"} /\ papers # <<>>
       \/ prog = "sample3" /\ idx > 0

\* C8: for a plan where some chapters have papers and others none, the
\* mapping ends with the LLM's summary for each chapter with papers and ""
\* for each chapter without, and the assembler is invoked once, with one
\* heading per entry of the mapping.
C8_MixedPlanAssembled ==
    /\ (prog \in ChapterProgs /\ chapters.tag = "list" /\ Len(chapters.items) >= 2)
          => ~DigestRaised
    /\ (pc = "asm_extract" /\ prog \in ChapterProgs)
          => /\ \A i \in 1..Len(outcomes) :
                  /\ dict_get(chapters_summaries, chapters.items[i]) = outcomes[i].summary
                  /\ ~outcomes[i].papers => outcomes[i].summary = ""
             /\ llm_calls.assembler = 1
             /\ Len(prompt) = Len(chapters_summaries)
             /\ \A i \in 1..Len(prompt) :
                  /\ prompt[i].heading = chapters_summaries[i][1]
                  /\ prompt[i].body = chapters_summaries[i][2]

\* C9: a paper without the abstract (or authors) field does not abort a
\* summarizer: no exception, and the digest shows a placeholder for it.
C9_MissingFieldTolerated ==
    /\ ~DigestRaised
    /\ pc = "sum_llm" =>
          \A i \in 1..Len(papers) :
              "abstract" \notin papers[i].fields => papers_text[i].abstract = "placeholder"

\* C10 as amended: for a non-empty query and a 2xx response with a non-zero
\* total, search_for_papers returns the response's data list as it is, with
\* every record the response carries.
C10_ReturnsDataUnchanged ==
    (pc = "sfp_return" /\ query # "" /\ OkObject(rsp) /\ rsp.hasTotal /\ rsp.total # 0)
        => /\ rsp.hasData
           /\ retval = PyList(rsp.data)
           /\ Len(retval.items) = Len(rsp.data)

C10_Witness ==
    /\ pc = "sfp_return"
    /\ query # ""
    /\ OkObject(rsp) /\ rsp.total # 0
    /\ Len(rsp.data) > result_limit
    /\ retval = PyList(rsp.data)

\* C10 as stated: the returned list has at most result_limit elements.
C10_CappedAtLimit ==
    (pc = "sfp_return" /\ query # "" /\ OkObject(rsp) /\ rsp.hasTotal /\ rsp.total # 0)
        => /\ retval = PyList(rsp.data)
           /\ Len(retval.items) <= result_limit

-----------------------------------------------------------------------------
\* a subprocess.run that timed out or returned a non-zero exit status
Failure(o) == o \in {"timeout", "nonzero"}

\* C11: in compile_latex_file a command that times out or exits with a
\* non-zero status is the last command run (none of the remaining ones is run,
\* none is run again) and no file is moved to output_pdf.
C11_FailureStopsCompile ==
    \A i \in 1..Len(clf_results) :
        Failure(clf_results[i]) => (i = Len(clf_results) /\ ~moved)

-----------------------------------------------------------------------------
\* control is inside a search_for_papers call
InSearch == pc \in {"sfp_call", "sfp_response"}

\* C12: search_for_papers has no maximum attempt count.  A request answered by
\* an HTTP error is always followed by another attempt of the same call,
\* whatever the number of failures so far: the call neither returns nor raises
\* HTTPError.  The call ends only on the empty query, on a response that is
\* not an HTTP error (it then ends at once), or on another exception.
C12_RetriesWithoutCap ==
    [][ /\ (pc = "sfp_response" /\ rsp.kind = "http_error")
            => (pc' = "sfp_call" /\ tries' = tries + 1 /\ exc' = ""
                /\ query' = query /\ retval' = retval)
        /\ InSearch => exc' # "HTTPError"
        /\ (InSearch /\ pc' \in {"sfp_return", "crashed"})
            => \/ (pc = "sfp_call" /\ query = "" /\ pc' = "sfp_return")
               \/ (pc = "sfp_call" /\ exc' = "ConnectionError")
               \/ (pc = "sfp_response" /\ rsp.kind = "ok")
        /\ (pc = "sfp_response" /\ rsp.kind = "ok")
            => pc' \in {"sfp_return", "crashed"}
      ]_vars

\* every request of a call has failed, as many times as the service fails, and
\* the call is about to send the next one
C12_Witness ==
    /\ pc = "sfp_call"
    /\ query # ""
    /\ tries = MaxErrors
    /\ log = [i \in 1..(3 * MaxErrors) |-> <<"GET", "on_backoff", "wait">>[((i - 1) % 3) + 1]]

-----------------------------------------------------------------------------
\* the number of time.sleep(1.0) pauses among the effects l
Pauses(l) == Cardinality({i \in DOMAIN l : l[i] = "sleep(1.0)"})

\* C13: a search_for_papers call that returns after a 2xx response has paused
\* exactly once, for 1 second, after the request that was answered 2xx and
\* before returning, be the result the papers or None (total = 0); the
\* attempts answered by an HTTP error and the empty-query return have not paused.
C13_OnePausePerSuccess ==
    /\ InSearch => Pauses(log) = 0
    /\ pc = "sfp_return" =>
          IF query = "" THEN log = <<>>
          ELSE /\ rsp.kind = "ok"
               /\ Pauses(log) = 1
               /\ Len(log) >= 2
               /\ log[Len(log)] = "sleep(1.0)"
               /\ log[Len(log) - 1] = "GET"

\* a call returns None for total = 0 after an HTTP error and a 2xx response
C13_Witness ==
    /\ pc = "sfp_return"
    /\ query # ""
    /\ tries > 0
    /\ OkObject(rsp) /\ rsp.hasTotal /\ rsp.total = 0
    /\ retval = None
    /\ Pauses(log) = 1

-----------------------------------------------------------------------------
\* a get_bibtex_entry call with a non-empty id has raised
BibRaised == pc = "crashed" /\ Truthy(paperId)

\* C14: get_bibtex_entry returns None without a request when the id is None
\* (absent) or empty; with a non-empty id it sends exactly one request, and an
\* HTTP error of that request reaches the caller as HTTPError after that one
\* request, with no retry and no backoff notification.
C14_BibtexFailsFast ==
    /\ (pc = "bib_return" /\ ~Truthy(paperId)) => (retval = None /\ log = <<>>)
    /\ (entry = "get_bibtex_entry" /\ ~Truthy(paperId)) => bib_requests = <<>>
    /\ (pc = "bib_return" /\ Truthy(paperId)) => (retval.tag = "str" /\ log = <<"GET">>)
    /\ BibRaised => (exc \in {"HTTPError", "ConnectionError"} /\ log = <<"GET">>
                     /\ tries = 0)
    /\ exc = "HTTPError" => BibRaised

\* a sample3 run ended by the HTTP error of its second BibTeX request
C14_Witness ==
    /\ entry = "main"
    /\ BibRaised
    /\ exc = "HTTPError"
    /\ log = <<"GET">>
    /\ Len(bib_requests) = 2
    /\ Len(bibtex_entries) = 1

-----------------------------------------------------------------------------
\* the chapter pipeline is in or past its loop over the plan
PastPlanning ==
    /\ entry = "main"
    /\ prog \in ChapterProgs
    /\ pc \in {"main_loop", "asm_extract", "asm_return", "clf_run", "done"}

\* C16: the chapter-summary mapping has one entry per chapter processed, in
\* plan order, duplicate titles included: i entries after the i-th chapter,
\* as many entries as the plan has chapters after the loop.
C16_OneEntryPerChapter ==
    PastPlanning =>
        /\ Len(chapters_summaries) = Len(outcomes)
        /\ \A i \in DOMAIN chapters_summaries :
              chapters_summaries[i][1] = chapters.items[i]
        /\ pc # "main_loop" => Len(chapters_summaries) = Len(chapters.items)

-----------------------------------------------------------------------------
\* the ids of the papers ps
Ids(ps) == {paper_id(ps[i]) : i \in DOMAIN ps}

\* no two papers of ps have the same id
DistinctIds(ps) ==
    \A i, j \in DOMAIN ps : paper_id(ps[i]) = paper_id(ps[j]) => i = j

\* the positions of page that hold the first paper with an id not in seen
FirstPositions(page, seen) ==
    {i \in DOMAIN page :
        /\ paper_id(page[i]) \notin seen
        /\ \A j \in 1..(i - 1) : paper_id(page[j]) # paper_id(page[i])}

\* the papers of page at those positions, in the order of page
FirstOccurrences(page, seen) ==
    LET K == FirstPositions(page, seen) IN
    [k \in 1..Cardinality(K) |->
        page[CHOOSE i \in K : Cardinality({j \in K : j <= i}) = k]]

\* C17: in a sample3 run collect_papers_on_theme keeps, of every result page,
\* the first paper of each paperId not collected before, in the order of
\* arrival, so no two collected papers have the same paperId; get_bibtex_entry
\* requests no id twice, and the bibliography has at most one entry per id
\* requested.
C17_DedupById ==
    [][ entry = "main" =>
        /\ (pc = "sfp_return" /\ prog = "sample3" /\ Truthy(retval))
              => papers_collected' =
                    papers_collected \o FirstOccurrences(retval.items, Ids(papers_collected))
        /\ DistinctIds(papers_collected')
        /\ \A i, j \in DOMAIN bib_requests' :
              bib_requests'[i] = bib_requests'[j] => i = j
        /\ \A i \in DOMAIN bib_requests' : PyStr(bib_requests'[i]) \in Ids(papers_collected')
        /\ Len(bibtex_entries') <= Len(bib_requests')
      ]_vars

\* five non-empty pages gave two papers, each with its BibTeX entry
C17_Witness ==
    /\ prog = "sample3"
    /\ pc = "s3_assemble"
    /\ offset = OFFSET_STOP
    /\ Len(papers_collected) = 2
    /\ Len(bib_requests) = 2
    /\ Len(bibtex_entries) = 2

-----------------------------------------------------------------------------
\* the chapter pipeline is processing a chapter: its search or its summary
InChapter == pc \in {"sfp_call", "sfp_response", "sfp_return", "sum_llm", "sum_return"}

\* C18: in a run of the chapter pipeline the planner's LLM call precedes every
\* search; the chapters are processed in plan order, each by its search and,
\* after it, its summarizing LLM call; the assembler's LLM call comes after
\* the last chapter; compile_latex_file starts after the assembler returned.
C18_StageOrder ==
    (entry = "main" /\ prog \in ChapterProgs) =>
        /\ llm_calls.planner <= 1
        /\ InChapter =>
              /\ llm_calls.planner = 1
              /\ llm_calls.assembler = 0
              /\ clf_i = 0
              /\ chapters.tag = "list"
              /\ idx = Len(outcomes) + 1
              /\ idx <= Len(chapters.items)
              /\ query = chapter_query(theme, chapters.items[idx])
        /\ pc = "sum_llm" => (papers # <<>> /\ llm_calls.summarizer <= Len(outcomes))
        /\ llm_calls.summarizer <= Len(outcomes) + 1
        /\ llm_calls.summarizer = Len(outcomes) + 1 => (pc = "sum_return" /\ papers # <<>>)
        /\ llm_calls.assembler > 0 =>
              /\ llm_calls.planner = 1
              /\ llm_calls.assembler = 1
              /\ Len(outcomes) = Len(chapters.items)
        /\ asm_status # "" => llm_calls.assembler = 1
        /\ clf_i > 0 => (llm_calls.assembler = 1 /\ asm_status # "")

\* a run with two chapters, both summarized by the LLM, went through the
\* assembler and every command of compile_latex_file
C18_Witness ==
    /\ entry = "main"
    /\ prog \in ChapterProgs
    /\ pc = "done"
    /\ Len(chapters.items) = 2
    /\ llm_calls = [planner |-> 1, summarizer |-> 2, assembler |-> 1]
    /\ asm_status = "written"
    /\ Len(clf_results) = Len(commands(prog))

-----------------------------------------------------------------------------
\* C19: when the planner returns an empty chapter sequence the chapter
\* pipeline exits at once: no search request, no summarizer or assembler LLM
\* call, no compile_latex_file, no .tex and no .pdf written.
C19_EmptyPlanExits ==
    (entry = "main" /\ prog \in ChapterProgs /\ chapters = PyList(<<>>)) =>
        /\ pc = "exited"
        /\ exc = ""
        /\ llm_calls = [planner |-> 1, summarizer |-> 0, assembler |-> 0]
        /\ query = "" /\ log = <<>> /\ tries = 0 /\ rsp = NoRsp
        /\ chapters_summaries = <<>> /\ outcomes = <<>>
        /\ asm_status = "" /\ prompt = <<>>
        /\ clf_i = 0 /\ clf_results = <<>> /\ ~moved
        /\ tex_file[1] # "written"
        /\ pdf_file # "produced"

\* the planner returned [] in a directory that holds the files of an earlier run
C19_Witness ==
    /\ entry = "main"
    /\ prog \in ChapterProgs
    /\ pc = "exited"
    /\ chapters = PyList(<<>>)
    /\ tex_file = <<"stale", <<>>>>
    /\ pdf_file = "stale"

-----------------------------------------------------------------------------
\* generate_chapter_structure has raised: the run ended between the planner's
\* LLM answer and the assignment of chapters
PlannerRaised ==
    /\ entry = "main"
    /\ prog \in ChapterProgs
    /\ pc = "crashed"
    /\ llm_calls = [planner |-> 1, summarizer |-> 0, assembler |-> 0]
    /\ llm_response # <<>>
    /\ chapters = None

\* C20: generate_chapter_structure never raises and returns a sequence of
\* chapter titles (possibly empty) for every LLM answer, also when the marker
\* block holds valid JSON that is not an object, an object without "chapters",
\* or one whose "chapters" is not a list.
C20_PlannerTotal ==
    /\ ~PlannerRaised
    /\ pc = "gcs_return" => retval.tag = "list"

-----------------------------------------------------------------------------
\* the positions of the start markers and of the end markers of ext_text
Starts == {i \in DOMAIN ext_text : ext_text[i].kind = "<BEGIN LATEX>"}
Ends == {i \in DOMAIN ext_text : ext_text[i].kind = "<END LATEX>"}

\* t is u without its leading and trailing white space
IsStripOf(t, u) ==
    \E lo \in 1..(Len(u) + 1), hi \in 0..Len(u) :
        /\ t = SubSeq(u, lo, hi)
        /\ \A k \in 1..(lo - 1) : u[k].kind = "ws"
        /\ \A k \in (hi + 1)..Len(u) : u[k].kind = "ws"
        /\ t # <<>> => (t[1].kind # "ws" /\ t[Len(t)].kind # "ws")

\* C21: extract_text_between_markers(text, start, end) returns None exactly
\* when no start marker of text is followed by an end marker; otherwise it
\* returns what stands between the first start marker and the first end
\* marker after it, without leading and trailing white space.
C21_FirstBlockStripped ==
    (entry = "extract_text_between_markers" /\ pc = "done") =>
        /\ extracted.found = (\E i \in Starts, j \in Ends : i < j)
        /\ ~extracted.found => extracted.text = <<>>
        /\ extracted.found =>
              \E i \in Starts, j \in Ends :
                  /\ i < j
                  /\ \A k \in Starts : i <= k
                  /\ \A k \in Ends : k > i => j <= k
                  /\ IsStripOf(extracted.text, SubSeq(ext_text, i + 1, j - 1))

\* a text with two blocks, the second one empty: the content of the first
\* one is returned
C21_Witness ==
    /\ entry = "extract_text_between_markers"
    /\ pc = "done"
    /\ ext_text = <<Tok("<BEGIN LATEX>"), Tok("text"), Tok("<END LATEX>"),
                    Tok("<BEGIN LATEX>"), Tok("<END LATEX>")>>
    /\ extracted = [found |-> TRUE, text |-> <<Tok("text")>>]

-----------------------------------------------------------------------------
\* the backoff notifications among the effects l
Backoffs(l) == Cardinality({i \in DOMAIN l : l[i] = "on_backoff"})

\* a failed attempt that is not retried: the exception goes to the caller
\* with no notification, no wait and no further request
Propagates ==
    /\ pc' = "crashed"
    /\ exc' \notin {"", "HTTPError"}
    /\ tries' = tries
    /\ Backoffs(log') = Backoffs(log)
    /\ \A i \in DOMAIN log' : i > Len(log) => log'[i] \notin {"on_backoff", "wait"}

\* C22 as stated: a search call that fails otherwise than by an HTTP status
\* (connection failure, a 2xx body that is not JSON, a 2xx body without the
\* total or data field) is not retried, notifies no backoff, and raises to
\* the caller, ending the run.
C22_OtherFailuresPropagate ==
    [][ /\ (pc = "sfp_call" /\ pc' = "crashed") => Propagates
        /\ (pc = "sfp_response" /\ rsp.kind = "ok"
              /\ (rsp.body # "object" \/ ~rsp.hasTotal \/ ~rsp.hasData))
            => Propagates
        /\ pc = "crashed" => pc' = "crashed"
      ]_vars

\* the 2xx bodies on which the statements of search_for_papers raise, by script
BodyRaises(p, r) ==
    \/ r.body # "object"
    \/ ~r.hasTotal /\ p # "create_review_paper"
    \/ r.hasTotal /\ r.total # 0 /\ ~r.hasData

\* C22 as amended: the retry covers HTTP-status errors only.  A connection
\* failure, a 2xx body that is not a JSON object, a 2xx body without total
\* (except in create_review_paper, which reads a missing total as 0 and
\* returns None) and a 2xx body with a non-zero total and no data raise to the
\* caller without retry or backoff notification and end the run; every other
\* 2xx body makes the call return.
C22_OnlyHttpErrorsRetried ==
    [][ /\ (pc = "sfp_call" /\ pc' = "crashed") => Propagates
        /\ (pc = "sfp_response" /\ rsp.kind = "ok") =>
              IF BodyRaises(prog, rsp) THEN Propagates
              ELSE pc' = "sfp_return" /\ exc' = "" /\ tries' = tries
        /\ pc = "crashed" => pc' = "crashed"
      ]_vars

\* after one retried HTTP error, a 2xx body with a total and without data
\* ended the run with KeyError
C22_Witness ==
    /\ pc = "crashed"
    /\ exc = "KeyError"
    /\ tries = 1
    /\ rsp.kind = "ok" /\ rsp.hasTotal /\ ~rsp.hasData
    /\ log = <<"GET", "on_backoff", "wait", "GET", "sleep(1.0)">>

-----------------------------------------------------------------------------
\* C23: in a sample3 run references.bib is written after get_bibtex_entry has
\* been called for every collected paper and before the assembler's LLM call,
\* with the entries fetched, in order; an HTTP error of a fetch ends the run
\* with references.bib, the .tex file and the PDF unwritten and the assembler
\* not called; a fetch that returns None or "" adds no entry and the loop goes
\* on with the next paper.
C23_BibAfterAllFetches ==
    [][ (entry = "main" /\ prog = "sample3") =>
        /\ bib_file'[1] = "written" =>
              /\ papers_collected' # <<>>
              /\ idx' = Len(papers_collected') + 1
              /\ Len(papers_text') = Len(papers_collected')
              /\ bib_file'[2] = bibtex_entries'
        /\ (bib_file[1] # "written" /\ bib_file'[1] = "written") =>
              (llm_calls'.assembler = 0 /\ pc' = "s3_assemble")
        /\ llm_calls'.assembler > 0 => bib_file'[1] = "written"
        /\ (pc = "bib_call" /\ exc' = "HTTPError") =>
              /\ pc' = "crashed"
              /\ bib_file'[1] # "written"
              /\ tex_file'[1] # "written"
              /\ pdf_file' # "produced" /\ ~moved' /\ clf_i' = 0
              /\ llm_calls'.assembler = 0
        /\ pc = "crashed" => pc' = "crashed"
        /\ (pc = "bib_return" /\ ~Truthy(retval)) =>
              /\ bibtex_entries' = bibtex_entries
              /\ idx' = idx + 1
              /\ pc' = "s3_loop"
              /\ exc' = ""
        /\ (pc = "bib_return" /\ Truthy(retval)) =>
              bibtex_entries' = Append(bibtex_entries, retval.s)
      ]_vars

\* a run that collected two papers, skipped one of them for its empty BibTeX
\* answer, wrote references.bib with the other entry and called the assembler
C23_Witness ==
    /\ entry = "main"
    /\ prog = "sample3"
    /\ Len(papers_collected) = 2
    /\ Len(bib_requests) = 2
    /\ bib_file = <<"written", <<"@article">>>>
    /\ llm_calls.assembler = 1

-----------------------------------------------------------------------------
\* the search calls of a collect_papers_on_theme(th) that meets no empty page
AllPages(th) ==
    [i \in 1..5 |-> [query |-> th, limit |-> 10, offset |-> <<0, 10, 20, 30, 40>>[i]]]

\* C24: collect_papers_on_theme makes at most 5 search calls, with the
\* offsets 0, 10, 20, 30, 40 in this order and limit 10; the first call that
\* returns None or an empty list ends the loop, and no search call follows
\* it; with an empty theme no HTTP request is sent and [] is returned.
C24_PagesInOrder ==
    [][ (entry = "main" /\ prog = "sample3") =>
        /\ Len(search_calls') <= 5
        /\ search_calls' = SubSeq(AllPages(theme), 1, Len(search_calls'))
        /\ search_calls' # search_calls =>
              (pc = "collect_loop" /\ pc' = "sfp_call"
               /\ Len(search_calls') = Len(search_calls) + 1)
        /\ (pc # "sfp_call" /\ pc' = "sfp_call") =>
              \/ search_calls' # search_calls
              \/ (pc = "sfp_response" /\ rsp.kind = "http_error")
        /\ (pc = "sfp_return" /\ ~Truthy(retval)) =>
              (pc' = "collect_return" /\ papers_collected' = papers_collected)
        /\ pc = "collect_return" => pc' \in {"collect_return", "s3_loop", "done"}
        /\ (pc = "collect_loop" /\ Len(search_calls) = 5) => pc' # "sfp_call"
        /\ (theme = "" /\ pc = "sfp_return") => (log = <<>> /\ retval = None)
        /\ (theme = "" /\ pc' = "collect_return") =>
              (papers_collected' = <<>> /\ Len(search_calls') = 1)
      ]_vars

\* the third call returned an empty list and ended the loop
C24_Witness ==
    /\ entry = "main"
    /\ prog = "sample3"
    /\ pc = "collect_return"
    /\ search_calls = SubSeq(AllPages("gnn"), 1, 3)
    /\ offset = 20
    /\ papers_collected # <<>>

-----------------------------------------------------------------------------
\* C25: the query summarize_papers_for_chapter gives search_for_papers is
\* never empty, whatever the theme and the chapter title (both may be ""):
\* the `if not query` return is not taken in the chapter pipeline, and the
\* search of every chapter sends at least one HTTP request.
C25_ChapterQueryNotEmpty ==
    (entry = "main" /\ prog \in ChapterProgs) =>
        /\ InChapter =>
              /\ query # ""
              /\ Len(query) >= Len(theme) + Len(chapters.items[idx]) + 1
              /\ ~search_for_papers_short_circuit(query)
        /\ pc \in {"sfp_response", "sfp_return"} => (log # <<>> /\ log[1] = "GET")
        /\ (pc = "crashed" /\ exc \in {"ConnectionError", "JSONDecodeError"})
              => (log # <<>> /\ log[1] = "GET")

\* the search of a chapter with an empty title, under an empty theme, has
\* sent its request and returned
C25_Witness ==
    /\ entry = "main"
    /\ prog \in ChapterProgs
    /\ pc = "sfp_return"
    /\ theme = ""
    /\ chapters.items[idx] = ""
    /\ query = " "
    /\ log[1] = "GET"

=============================================================================
